---- MODULE Spec2Model ----
(***************************************************************************)
(* Model of the SPIRE agent core: the identity cache (package cache), the  *)
(* pool of streaming connections to the server (package manager) and the   *)
(* agent run loop (package agent).                                         *)
(***************************************************************************)
EXTENDS Integers, Sequences, FiniteSets, TLC

(***************************************************************************)
(* Bounds                                                                  *)
(***************************************************************************)
\* total number of SetEntry calls explored
MaxAppends == 3
\* total number of newClient calls explored
MaxCalls == 2
\* number of pool close() calls explored
MaxCloseAll == 2

(***************************************************************************)
(* Values                                                                  *)
(***************************************************************************)
\* a nil pointer, a run-time panic, no value
Absent == [nil |-> TRUE]
Panic == [panic |-> TRUE]
None == [none |-> TRUE]

\* Registration entries: a SPIFFE id and a list of selectors.  The first two
\* differ only in the order of their selectors.
RegEntries ==
    { [SpiffeId |-> "x", Selectors |-> <<"a", "b">>],
      [SpiffeId |-> "x", Selectors |-> <<"b", "a">>],
      [SpiffeId |-> "y", Selectors |-> <<"a">>] }

Certs == {"certA", "certB"}

\* util.DeriveRegEntryhash: a hash of the entry that does not depend on the
\* order of the selectors.
DeriveRegEntryhash(regEntry) ==
    <<regEntry.SpiffeId, {regEntry.Selectors[i] : i \in DOMAIN regEntry.Selectors}>>

Keys == {DeriveRegEntryhash(r) : r \in RegEntries}

VARIABLES
    cache,      \* cacheImpl.cache: map from key to list of Entry
    entries,    \* content of the channel returned by the last Entries() call
    last,       \* the last completed cache call: operation, argument, result
    nAppended   \* history: number of SetEntry calls so far

cacheVars == <<cache, entries, last, nAppended>>

\* SPIFFE ids of the workloads and the goroutines that call newClient
SpiffeIDs == {"id1", "id2"}
Procs == {"p1", "p2"}

\* the lists of SPIFFE ids a caller passes to newClient
IdLists == { <<"id1">>, <<"id2">>, <<"id1", "id2">> }
\* the longest list
MaxIds == Cardinality(SpiffeIDs)

VARIABLES
    poolExists,    \* m.clients != nil
    clients,       \* clientsPool.clients: map from SPIFFE id to client
    connCloses,    \* per connection: number of conn.Close() calls
    streamCloses,  \* per stream: number of stream.CloseSend() calls
    proc,          \* per goroutine: position in newClient/add and locals
    calls,         \* history: the newClient calls, in order of their start
    installed,     \* history: every client ever stored in the pool
    nCloseAll      \* history: number of pool close() calls

poolVars == <<poolExists, clients, connCloses, streamCloses, proc, calls,
              installed, nCloseAll>>

\* the goroutines of the agent: Agent.run, the one that runs startEndpoints
\* and the one that runs superviseManager
Tasks == {"run", "endpoints", "supervise"}

VARIABLES
    tomb,          \* a.t: goroutines alive, reason of death, dead
    Catalog,       \* state of the plugin catalog behind a.Catalog
    Attestor,      \* outcome of the attestation
    Manager,       \* a.Manager: "nil" or the manager it refers to
    Endpoints,     \* a.Endpoints: "nil" or the endpoints it refers to
    mgr,           \* the manager made by startManager: state and Err()
    ep,            \* the endpoints made by startEndpoints: state
    pc,            \* per goroutine: position in its function
    runRet,        \* Agent.Run: not called, waiting in t.Wait, or its result
    shutdownReq,   \* history: Agent.Shutdown was not called ("no"), or was
                   \* called before or after the first error of a goroutine
    result,        \* history: what each goroutine returned to the tomb
    firstErr,      \* history: the first non-nil error a goroutine returned
    teardown       \* history: the calls Agent.shutdown has made

agentVars == <<tomb, Catalog, Attestor, Manager, Endpoints, mgr, ep, pc, runRet,
               shutdownReq, result, firstErr, teardown>>

\* what the operations of the cache, of the pool and of the agent leave alone
notCache == <<poolVars, agentVars>>
notPool == <<cacheVars, agentVars>>
notAgent == <<cacheVars, poolVars>>

vars == <<cache, entries, last, nAppended, poolExists, clients, connCloses,
          streamCloses, proc, calls, installed, nCloseAll, tomb, Catalog,
          Attestor, Manager, Endpoints, mgr, ep, pc, runRet, shutdownReq,
          result, firstErr, teardown>>

(***************************************************************************)
(* The cache (package cache).  Every operation of cacheImpl holds c.m from *)
(* its first statement that touches the map to its return, so each is one  *)
(* step.                                                                   *)
(***************************************************************************)
\* New: an empty map
New == <<>>

Found(key) == key \in DOMAIN cache

\* e[0] of a Go slice: panics on an empty slice
Index0(s) == IF Len(s) = 0 THEN Panic ELSE s[1]

\* Value returned by cacheImpl.Entry
Entry(regEntry) ==
    LET key == DeriveRegEntryhash(regEntry) IN
    IF Found(key) THEN Index0(cache[key]) ELSE Absent

IsEmpty_nilMap == FALSE

\* Value returned by cacheImpl.IsEmpty
IsEmpty == Cardinality(DOMAIN cache) = 0

\* delete(c.cache, key)
MapDelete(m, key) == [k \in (DOMAIN m) \ {key} |-> m[k]]

\* c.cache[key] = v
MapSet(m, key, v) == [k \in (DOMAIN m) \cup {key} |-> IF k = key THEN v ELSE m[k]]

\* c.cache[key] read of a possibly missing key: the nil slice
MapGet(m, key) == IF key \in DOMAIN m THEN m[key] ELSE <<>>

Slice1_dropLast(s) == SubSeq(s, 1, Len(s) - 1)

\* entries[1:]
Slice1(s) == SubSeq(s, 2, Len(s))

CallEntry(regEntry) ==
    /\ last' = [op |-> "Entry", arg |-> regEntry, ret |-> Entry(regEntry),
                panicked |-> (Entry(regEntry) = Panic)]
    /\ UNCHANGED <<cache, entries, nAppended>>
    /\ UNCHANGED notCache

SetEntry(entry) ==
    LET key == DeriveRegEntryhash(entry.RegistrationEntry) IN
    /\ nAppended < MaxAppends
    /\ entry.seq = nAppended + 1
    /\ cache' = MapSet(cache, key, Append(MapGet(cache, key), entry))
    /\ nAppended' = nAppended + 1
    /\ last' = [op |-> "SetEntry", arg |-> entry, ret |-> None, panicked |-> FALSE]
    /\ UNCHANGED entries
    /\ UNCHANGED notCache

DeleteEntries_lenAfterDelete(regEntry) ==
    LET key == DeriveRegEntryhash(regEntry) IN
    /\ IF Found(key)
         THEN /\ cache' = MapDelete(cache, key)
              /\ last' = [op |-> "DeleteEntries", arg |-> regEntry,
                          ret |-> Len(MapGet(MapDelete(cache, key), key)),
                          panicked |-> FALSE]
         ELSE /\ cache' = cache
              /\ last' = [op |-> "DeleteEntries", arg |-> regEntry, ret |-> 0,
                          panicked |-> FALSE]
    /\ UNCHANGED <<entries, nAppended>>
    /\ UNCHANGED notCache

DeleteEntries(regEntry) ==
    LET key == DeriveRegEntryhash(regEntry) IN
    /\ IF Found(key)
         THEN /\ cache' = MapDelete(cache, key)
              /\ last' = [op |-> "DeleteEntries", arg |-> regEntry, ret |-> Len(cache[key]),
                          panicked |-> FALSE]
         ELSE /\ cache' = cache
              /\ last' = [op |-> "DeleteEntries", arg |-> regEntry, ret |-> 0,
                          panicked |-> FALSE]
    /\ UNCHANGED <<entries, nAppended>>
    /\ UNCHANGED notCache

DeleteEntry_keepsEmptyKey(regEntry) ==
    LET key == DeriveRegEntryhash(regEntry) IN
    /\ IF Found(key) /\ Len(cache[key]) > 0
         THEN /\ cache' = MapSet(cache, key, Slice1(cache[key]))
              /\ last' = [op |-> "DeleteEntry", arg |-> regEntry, ret |-> TRUE,
                          panicked |-> FALSE]
         ELSE /\ cache' = cache
              /\ last' = [op |-> "DeleteEntry", arg |-> regEntry, ret |-> FALSE,
                          panicked |-> FALSE]
    /\ UNCHANGED <<entries, nAppended>>
    /\ UNCHANGED notCache

DeleteEntry(regEntry) ==
    LET key == DeriveRegEntryhash(regEntry) IN
    /\ IF Found(key) /\ Len(cache[key]) > 0
         THEN /\ cache' = IF Len(Slice1(cache[key])) = 0
                            THEN MapDelete(cache, key)
                            ELSE MapSet(cache, key, Slice1(cache[key]))
              /\ last' = [op |-> "DeleteEntry", arg |-> regEntry, ret |-> TRUE,
                          panicked |-> FALSE]
         ELSE /\ cache' = cache
              /\ last' = [op |-> "DeleteEntry", arg |-> regEntry, ret |-> FALSE,
                          panicked |-> FALSE]
    /\ UNCHANGED <<entries, nAppended>>
    /\ UNCHANGED notCache

\* all orders in which a range over the map can visit its keys
Orders(S) == { o \in [1..Cardinality(S) -> S] : \A i, j \in DOMAIN o : i # j => o[i] # o[j] }

Entries_lastElement ==
    /\ \E o \in Orders(DOMAIN cache) :
          entries' = [i \in DOMAIN o |-> cache[o[i]][Len(cache[o[i]])]]
    /\ last' = [op |-> "Entries", arg |-> None, ret |-> None, panicked |-> FALSE]
    /\ UNCHANGED <<cache, nAppended>>
    /\ UNCHANGED notCache

Entries ==
    /\ \E o \in Orders(DOMAIN cache) :
          entries' = [i \in DOMAIN o |-> Index0(cache[o[i]])]
    /\ last' = [op |-> "Entries", arg |-> None, ret |-> None,
                panicked |-> (\E k \in DOMAIN cache : Len(cache[k]) = 0)]
    /\ UNCHANGED <<cache, nAppended>>
    /\ UNCHANGED notCache

CallIsEmpty ==
    /\ last' = [op |-> "IsEmpty", arg |-> None, ret |-> IsEmpty, panicked |-> FALSE]
    /\ UNCHANGED <<cache, entries, nAppended>>
    /\ UNCHANGED notCache

(***************************************************************************)
(* The pool of clients (package manager)                                   *)
(***************************************************************************)
\* A connection is named by the number of the newClient call that dialed
\* it, a stream by the call and the position in the call's list of the
\* SPIFFE id it was opened for.
Conns == 1..MaxCalls
Streams == Conns \X (1..MaxIds)

Idle == [pc |-> "idle", k |-> 0, i |-> 0, c |-> Absent]

\* clientsPool.get: the client stored for the id, or nil
get(spiffeID) == IF spiffeID \in DOMAIN clients THEN clients[spiffeID] ELSE Absent

\* the calls that have returned
Returned == {q \in DOMAIN calls : calls[q].ret # "running"}

SetProc(p, r) == [proc EXCEPT ![p] = r]
SetRet(k, r) == [calls EXCEPT ![k].ret = r]

\* newClient up to its loop: create the pool if there is none, then dial in
\* newGRPCConn; the dial touches nothing shared, and succeeds or fails
newClient(p, spiffeIDs) ==
    /\ proc[p].pc = "idle"
    /\ Len(calls) < MaxCalls
    /\ poolExists' = TRUE
    /\ \/ /\ calls' = Append(calls, [ids |-> spiffeIDs, ret |-> "running", pred |-> Returned])
          /\ proc' = SetProc(p, [pc |-> "add", k |-> Len(calls) + 1, i |-> 1, c |-> Absent])
       \/ /\ calls' = Append(calls, [ids |-> spiffeIDs, ret |-> "dialErr", pred |-> Returned])
          /\ proc' = proc
    /\ UNCHANGED <<clients, connCloses, streamCloses, installed, nCloseAll>>
    /\ UNCHANGED notPool

\* the id the call of p is registering
CurId(p) == calls[proc[p].k].ids[proc[p].i]

\* add: c := p.get(spiffeID)
add_get(p) ==
    /\ proc[p].pc = "add"
    /\ proc' = SetProc(p, [proc[p] EXCEPT !.c = get(CurId(p)),
                                          !.pc = IF get(CurId(p)) # Absent
                                                   THEN "close" ELSE "fetch"])
    /\ UNCHANGED <<poolExists, clients, connCloses, streamCloses, calls, installed, nCloseAll>>
    /\ UNCHANGED notPool

add_close_streamOnly(p) ==
    /\ proc[p].pc = "close"
    /\ streamCloses' = [streamCloses EXCEPT ![proc[p].c.stream] = @ + 1]
    /\ proc' = SetProc(p, [proc[p] EXCEPT !.pc = "fetch"])
    /\ UNCHANGED <<poolExists, clients, connCloses, calls, installed, nCloseAll>>
    /\ UNCHANGED notPool

\* add: c.stream.CloseSend(); c.conn.Close() on the client that get returned.
\* No step reads the close state of the stream, so the two calls are one step.
add_close(p) ==
    /\ proc[p].pc = "close"
    /\ streamCloses' = [streamCloses EXCEPT ![proc[p].c.stream] = @ + 1]
    /\ connCloses' = [connCloses EXCEPT ![proc[p].c.conn] = @ + 1]
    /\ proc' = SetProc(p, [proc[p] EXCEPT !.pc = "fetch"])
    /\ UNCHANGED <<poolExists, clients, calls, installed, nCloseAll>>
    /\ UNCHANGED notPool

\* add: nodeClient.FetchSVID opens the stream or fails; it fails on a
\* connection that has been closed
add_FetchSVID(p) ==
    /\ proc[p].pc = "fetch"
    /\ \/ /\ connCloses[proc[p].k] = 0
          /\ proc' = SetProc(p, [proc[p] EXCEPT !.pc = "install"])
       \/ proc' = SetProc(p, [proc[p] EXCEPT !.pc = "fail"])
    /\ UNCHANGED <<poolExists, clients, connCloses, streamCloses, calls, installed, nCloseAll>>
    /\ UNCHANGED notPool

\* add: p.clients[spiffeID] = &client{conn, stream}, and the next round of
\* the loop of newClient, which returns nil after the last id
add_install(p) ==
    LET k == proc[p].k
        i == proc[p].i
        c == [conn |-> k, stream |-> <<k, i>>]
    IN
    /\ proc[p].pc = "install"
    /\ clients' = MapSet(clients, CurId(p), c)
    /\ installed' = installed \cup {[id |-> CurId(p), client |-> c]}
    /\ IF i < Len(calls[k].ids)
         THEN /\ proc' = SetProc(p, [proc[p] EXCEPT !.pc = "add", !.i = i + 1, !.c = Absent])
              /\ UNCHANGED calls
         ELSE /\ proc' = SetProc(p, Idle)
              /\ calls' = SetRet(k, "nil")
    /\ UNCHANGED <<poolExists, connCloses, streamCloses, nCloseAll>>
    /\ UNCHANGED notPool

newClient_fail_noClose(p) ==
    /\ proc[p].pc = "fail"
    /\ calls' = SetRet(proc[p].k, "streamErr")
    /\ proc' = SetProc(p, Idle)
    /\ UNCHANGED <<poolExists, clients, connCloses, streamCloses, installed, nCloseAll>>
    /\ UNCHANGED notPool

\* newClient, add returned an error: conn.Close(); return err
newClient_fail(p) ==
    /\ proc[p].pc = "fail"
    /\ connCloses' = [connCloses EXCEPT ![proc[p].k] = @ + 1]
    /\ calls' = SetRet(proc[p].k, "streamErr")
    /\ proc' = SetProc(p, Idle)
    /\ UNCHANGED <<poolExists, clients, streamCloses, installed, nCloseAll>>
    /\ UNCHANGED notPool

\* number of clients of the pool that hold the connection / the stream
UsesOfConn(k) == Cardinality({id \in DOMAIN clients : clients[id].conn = k})
UsesOfStream(s) == Cardinality({id \in DOMAIN clients : clients[id].stream = s})

\* clientsPool.close: client.close() on every client of the pool, under the
\* lock of the pool
close ==
    /\ poolExists
    /\ nCloseAll < MaxCloseAll
    /\ nCloseAll' = nCloseAll + 1
    /\ streamCloses' = [s \in Streams |-> streamCloses[s] + UsesOfStream(s)]
    /\ connCloses' = [k \in Conns |-> connCloses[k] + UsesOfConn(k)]
    /\ UNCHANGED <<poolExists, clients, proc, calls, installed>>
    /\ UNCHANGED notPool

(***************************************************************************)
(* The agent (package agent).  a.t is a tomb of gopkg.in/tomb.v2: Go adds  *)
(* a goroutine, a goroutine that returns leaves the tomb and kills it when *)
(* it returns an error or is the last one alive, Dying() is closed by the  *)
(* first kill and Wait returns the reason once no goroutine is alive.      *)
(***************************************************************************)
StillAlive == "ErrStillAlive"
Nil == "nil"

Dying == tomb.reason # StillAlive

kill_firstReasonWins(t, reason) ==
    IF t.reason = StillAlive THEN [t EXCEPT !.reason = reason] ELSE t

\* tomb.kill, as called by t.Kill of Agent.Shutdown and by a goroutine that
\* returns: the first kill sets the reason, and a later error replaces a
\* nil reason
kill(t, reason) ==
    IF t.reason = StillAlive THEN [t EXCEPT !.reason = reason]
    ELSE IF t.reason = Nil THEN [t EXCEPT !.reason = reason]
    ELSE t

\* t.Go: one more goroutine alive
Go(t) == [t EXCEPT !.alive = @ + 1]

\* tomb.run after the function of a goroutine has returned err
TombRun(t, err) ==
    LET t1 == [t EXCEPT !.alive = @ - 1] IN
    IF t1.alive = 0 \/ err # Nil
      THEN IF t1.alive = 0 THEN [kill(t1, err) EXCEPT !.dead = TRUE]
                           ELSE kill(t1, err)
      ELSE t1

\* a nil interface was called: the process has crashed
Crashed == pc["run"] = "panic"

\* the goroutine returns err to the tomb
Return(task, err) ==
    /\ pc' = [pc EXCEPT ![task] = "done"]
    /\ tomb' = TombRun(tomb, err)
    /\ result' = [result EXCEPT ![task] = err]
    /\ firstErr' = IF firstErr = Nil THEN err ELSE firstErr

\* Manager is an exported field of Agent: the owner of the agent gives it a
\* manager of its own before it calls Run
SetManager ==
    /\ runRet = "notCalled"
    /\ Manager = Nil
    /\ Manager' = "m0"
    /\ UNCHANGED <<tomb, Catalog, Attestor, Endpoints, mgr, ep, pc, runRet,
                   shutdownReq, result, firstErr, teardown>>
    /\ UNCHANGED notAgent

\* Agent.Run up to t.Wait: a.t.Go(a.run)
Run ==
    /\ runRet = "notCalled"
    /\ ~tomb.dead
    /\ runRet' = "waiting"
    /\ tomb' = Go(tomb)
    /\ pc' = [pc EXCEPT !["run"] = "startPlugins"]
    /\ UNCHANGED <<Catalog, Attestor, Manager, Endpoints, mgr, ep, shutdownReq,
                   result, firstErr, teardown>>
    /\ UNCHANGED notAgent

\* Agent.Run: return a.t.Wait()
Run_Wait ==
    /\ runRet = "waiting"
    /\ ~Crashed
    /\ tomb.dead
    /\ runRet' = tomb.reason
    /\ UNCHANGED <<tomb, Catalog, Attestor, Manager, Endpoints, mgr, ep, pc,
                   shutdownReq, result, firstErr, teardown>>
    /\ UNCHANGED notAgent

\* Agent.Shutdown: a.t.Kill(nil)
Shutdown ==
    /\ shutdownReq = "no"
    /\ ~Crashed
    /\ shutdownReq' = IF firstErr = Nil THEN "beforeErr" ELSE "afterErr"
    /\ tomb' = kill(tomb, Nil)
    /\ UNCHANGED <<Catalog, Attestor, Manager, Endpoints, mgr, ep, pc, runRet,
                   result, firstErr, teardown>>
    /\ UNCHANGED notAgent

startPlugins_errorIgnored ==
    /\ pc["run"] = "startPlugins"
    /\ Catalog' \in {"running", "failed"}
    /\ pc' = [pc EXCEPT !["run"] = "attest"]
    /\ UNCHANGED <<tomb, result, firstErr>>
    /\ UNCHANGED <<Attestor, Manager, Endpoints, mgr, ep, runRet, shutdownReq, teardown>>
    /\ UNCHANGED notAgent

\* run: err := a.startPlugins(), which is a.Catalog.Run()
startPlugins ==
    /\ pc["run"] = "startPlugins"
    /\ \/ /\ Catalog' = "running"
          /\ pc' = [pc EXCEPT !["run"] = "attest"]
          /\ UNCHANGED <<tomb, result, firstErr>>
       \/ /\ Catalog' = "failed"
          /\ Return("run", "errPlugins")
    /\ UNCHANGED <<Attestor, Manager, Endpoints, mgr, ep, runRet, shutdownReq, teardown>>
    /\ UNCHANGED notAgent

\* run: as, err := a.attest()
attest ==
    /\ pc["run"] = "attest"
    /\ \/ /\ Attestor' = "ok"
          /\ pc' = [pc EXCEPT !["run"] = "startManager"]
          /\ UNCHANGED <<tomb, result, firstErr>>
       \/ /\ Attestor' = "failed"
          /\ Return("run", "errAttest")
    /\ UNCHANGED <<Catalog, Manager, Endpoints, mgr, ep, runRet, shutdownReq, teardown>>
    /\ UNCHANGED notAgent

startManager_noCheck ==
    /\ pc["run"] = "startManager"
    /\ \/ /\ Return("run", "errNew")
          /\ UNCHANGED <<Manager, mgr>>
       \/ /\ Manager' = "m1"
          /\ mgr' = [state |-> "running", err |-> Nil]
          /\ pc' = [pc EXCEPT !["run"] = "goEndpoints"]
          /\ UNCHANGED <<tomb, result, firstErr>>
       \/ /\ Manager' = "m1"
          /\ mgr' = [state |-> "startFailed", err |-> Nil]
          /\ Return("run", "errStart")
    /\ UNCHANGED <<Catalog, Attestor, Endpoints, ep, runRet, shutdownReq, teardown>>
    /\ UNCHANGED notAgent

\* run: err = a.startManager(...), the whole of it under a.mtx: the check
\* of a.Manager, manager.New, a.Manager = mgr and a.Manager.Start()
startManager ==
    /\ pc["run"] = "startManager"
    /\ \/ /\ Manager # Nil
          /\ Return("run", "errDoubleStart")
          /\ UNCHANGED <<Manager, mgr>>
       \/ /\ Manager = Nil
          /\ Return("run", "errNew")
          /\ UNCHANGED <<Manager, mgr>>
       \/ /\ Manager = Nil
          /\ Manager' = "m1"
          /\ mgr' = [state |-> "running", err |-> Nil]
          /\ pc' = [pc EXCEPT !["run"] = "goEndpoints"]
          /\ UNCHANGED <<tomb, result, firstErr>>
       \/ /\ Manager = Nil
          /\ Manager' = "m1"
          /\ mgr' = [state |-> "startFailed", err |-> Nil]
          /\ Return("run", "errStart")
    /\ UNCHANGED <<Catalog, Attestor, Endpoints, ep, runRet, shutdownReq, teardown>>
    /\ UNCHANGED notAgent

\* run: a.t.Go(func() error { return a.startEndpoints(as.Bundle) })
goEndpoints ==
    /\ pc["run"] = "goEndpoints"
    /\ tomb' = Go(tomb)
    /\ pc' = [pc EXCEPT !["run"] = "goSupervise", !["endpoints"] = "start"]
    /\ UNCHANGED <<Catalog, Attestor, Manager, Endpoints, mgr, ep, runRet,
                   shutdownReq, result, firstErr, teardown>>
    /\ UNCHANGED notAgent

\* run: a.t.Go(a.superviseManager)
goSupervise ==
    /\ pc["run"] = "goSupervise"
    /\ tomb' = Go(tomb)
    /\ pc' = [pc EXCEPT !["run"] = "dying", !["supervise"] = "stopped"]
    /\ UNCHANGED <<Catalog, Attestor, Manager, Endpoints, mgr, ep, runRet,
                   shutdownReq, result, firstErr, teardown>>
    /\ UNCHANGED notAgent

\* run: <-a.t.Dying()
awaitDying ==
    /\ pc["run"] = "dying"
    /\ Dying
    /\ pc' = [pc EXCEPT !["run"] = "sdEndpoints"]
    /\ UNCHANGED <<tomb, Catalog, Attestor, Manager, Endpoints, mgr, ep, runRet,
                   shutdownReq, result, firstErr, teardown>>
    /\ UNCHANGED notAgent

\* shutdown: if a.Endpoints != nil { a.Endpoints.Shutdown() }; a.Endpoints
\* is never set back to nil, so the check and the call are one step
shutdown_Endpoints ==
    /\ pc["run"] = "sdEndpoints"
    /\ IF Endpoints # Nil
         THEN /\ ep' = IF ep = "running" THEN "stopped" ELSE ep
              /\ teardown' = Append(teardown, "Endpoints.Shutdown")
         ELSE UNCHANGED <<ep, teardown>>
    /\ pc' = [pc EXCEPT !["run"] = "sdManager"]
    /\ UNCHANGED <<tomb, Catalog, Attestor, Manager, Endpoints, mgr, runRet,
                   shutdownReq, result, firstErr>>
    /\ UNCHANGED notAgent

\* shutdown: if a.Manager != nil, read without a.mtx
shutdown_ManagerCheck ==
    /\ pc["run"] = "sdManager"
    /\ pc' = [pc EXCEPT !["run"] = IF Manager # Nil THEN "sdManagerCall" ELSE "sdCatalog"]
    /\ UNCHANGED <<tomb, Catalog, Attestor, Manager, Endpoints, mgr, ep, runRet,
                   shutdownReq, result, firstErr, teardown>>
    /\ UNCHANGED notAgent

\* shutdown: a.Manager.Shutdown(), a second read of a.Manager; the call
\* panics when a.Manager is nil by now
shutdown_ManagerCall ==
    /\ pc["run"] = "sdManagerCall"
    /\ IF Manager # Nil
         THEN /\ mgr' = IF mgr.state = "running"
                          THEN [state |-> "stopped", err |-> Nil] ELSE mgr
              /\ teardown' = Append(teardown, "Manager.Shutdown")
              /\ pc' = [pc EXCEPT !["run"] = "sdCatalog"]
         ELSE /\ pc' = [pc EXCEPT !["run"] = "panic"]
              /\ UNCHANGED <<mgr, teardown>>
    /\ UNCHANGED <<tomb, Catalog, Attestor, Manager, Endpoints, ep, runRet,
                   shutdownReq, result, firstErr>>
    /\ UNCHANGED notAgent

\* shutdown: if a.Catalog != nil { a.Catalog.Stop() }; a.Catalog is set
\* when the agent is made and never written
shutdown_Catalog ==
    /\ pc["run"] = "sdCatalog"
    /\ Catalog' = "stopped"
    /\ teardown' = Append(teardown, "Catalog.Stop")
    /\ pc' = [pc EXCEPT !["run"] = "return"]
    /\ UNCHANGED <<tomb, Attestor, Manager, Endpoints, mgr, ep, runRet,
                   shutdownReq, result, firstErr>>
    /\ UNCHANGED notAgent

\* run: return nil
run_return ==
    /\ pc["run"] = "return"
    /\ Return("run", Nil)
    /\ UNCHANGED <<Catalog, Attestor, Manager, Endpoints, mgr, ep, runRet,
                   shutdownReq, teardown>>
    /\ UNCHANGED notAgent

\* startEndpoints: e := endpoints.New(config); err := e.Start()
startEndpoints ==
    /\ pc["endpoints"] = "start"
    /\ ~Crashed
    /\ \/ /\ ep' = "running"
          /\ pc' = [pc EXCEPT !["endpoints"] = "store"]
          /\ UNCHANGED <<tomb, result, firstErr>>
       \/ /\ ep' = "startFailed"
          /\ Return("endpoints", "errEndpointsStart")
    /\ UNCHANGED <<Catalog, Attestor, Manager, Endpoints, mgr, runRet, shutdownReq, teardown>>
    /\ UNCHANGED notAgent

\* startEndpoints: a.Endpoints = e, under a.mtx
startEndpoints_store ==
    /\ pc["endpoints"] = "store"
    /\ ~Crashed
    /\ Endpoints' = "e1"
    /\ pc' = [pc EXCEPT !["endpoints"] = "wait"]
    /\ UNCHANGED <<tomb, Catalog, Attestor, Manager, mgr, ep, runRet, shutdownReq,
                   result, firstErr, teardown>>
    /\ UNCHANGED notAgent

\* startEndpoints: return a.Endpoints.Wait(), which returns once the
\* endpoints have stopped: nil after Shutdown, the error after a failure
startEndpoints_Wait ==
    /\ pc["endpoints"] = "wait"
    /\ ~Crashed
    /\ ep \in {"stopped", "failed"}
    /\ Return("endpoints", IF ep = "failed" THEN "errEndpoints" ELSE Nil)
    /\ UNCHANGED <<Catalog, Attestor, Manager, Endpoints, mgr, ep, runRet,
                   shutdownReq, teardown>>
    /\ UNCHANGED notAgent

\* the endpoints fail while serving
Endpoints_fail ==
    /\ ep = "running"
    /\ ~Crashed
    /\ ep' = "failed"
    /\ UNCHANGED <<tomb, Catalog, Attestor, Manager, Endpoints, mgr, pc, runRet,
                   shutdownReq, result, firstErr, teardown>>
    /\ UNCHANGED notAgent

\* the manager stops by itself, with or without an error
Manager_stop(err) ==
    /\ mgr.state = "running"
    /\ ~Crashed
    /\ mgr' = [state |-> "stopped", err |-> err]
    /\ UNCHANGED <<tomb, Catalog, Attestor, Manager, Endpoints, ep, pc, runRet,
                   shutdownReq, result, firstErr, teardown>>
    /\ UNCHANGED notAgent

\* superviseManager: <-a.Manager.Stopped(); err := a.Manager.Err()
superviseManager ==
    /\ pc["supervise"] = "stopped"
    /\ ~Crashed
    /\ mgr.state = "stopped"
    /\ pc' = [pc EXCEPT !["supervise"] = "clear"]
    /\ UNCHANGED <<tomb, Catalog, Attestor, Manager, Endpoints, mgr, ep, runRet,
                   shutdownReq, result, firstErr, teardown>>
    /\ UNCHANGED notAgent

\* superviseManager: a.Manager = nil, under a.mtx
superviseManager_clear ==
    /\ pc["supervise"] = "clear"
    /\ ~Crashed
    /\ Manager' = Nil
    /\ pc' = [pc EXCEPT !["supervise"] = "return"]
    /\ UNCHANGED <<tomb, Catalog, Attestor, Endpoints, mgr, ep, runRet, shutdownReq,
                   result, firstErr, teardown>>
    /\ UNCHANGED notAgent

\* superviseManager: return err
superviseManager_return ==
    /\ pc["supervise"] = "return"
    /\ ~Crashed
    /\ Return("supervise", mgr.err)
    /\ UNCHANGED <<Catalog, Attestor, Manager, Endpoints, mgr, ep, runRet,
                   shutdownReq, teardown>>
    /\ UNCHANGED notAgent

\* the documents a caller can hand to SetEntry; seq is the history stamp
EntryValues ==
    [RegistrationEntry : RegEntries, SVID : Certs, seq : 1..(MaxAppends + 1)]

Init ==
    /\ cache = New
    /\ entries = <<>>
    /\ last = [op |-> "none", arg |-> None, ret |-> None, panicked |-> FALSE]
    /\ nAppended = 0
    /\ poolExists = FALSE
    /\ clients = <<>>
    /\ connCloses = [k \in Conns |-> 0]
    /\ streamCloses = [s \in Streams |-> 0]
    /\ proc = [p \in Procs |-> Idle]
    /\ calls = <<>>
    /\ installed = {}
    /\ nCloseAll = 0
    /\ tomb = [alive |-> 0, reason |-> StillAlive, dead |-> FALSE]
    /\ Catalog = "new"
    /\ Attestor = "none"
    /\ Manager = Nil
    /\ Endpoints = Nil
    /\ mgr = [state |-> "none", err |-> Nil]
    /\ ep = "none"
    /\ pc = [t \in Tasks |-> "none"]
    /\ runRet = "notCalled"
    /\ shutdownReq = "no"
    /\ result = [t \in Tasks |-> "none"]
    /\ firstErr = Nil
    /\ teardown = <<>>

NextCache ==
    \/ \E r \in RegEntries : CallEntry(r)
    \/ \E e \in EntryValues : SetEntry(e)
    \/ \E r \in RegEntries : DeleteEntries(r)
    \/ \E r \in RegEntries : DeleteEntry(r)
    \/ Entries
    \/ CallIsEmpty

SpecCache == Init /\ [][NextCache]_vars

NextPool ==
    \/ \E p \in Procs, l \in IdLists : newClient(p, l)
    \/ \E p \in Procs : add_get(p)
    \/ \E p \in Procs : add_close(p)
    \/ \E p \in Procs : add_FetchSVID(p)
    \/ \E p \in Procs : add_install(p)
    \/ \E p \in Procs : newClient_fail(p)
    \/ close

SpecPool == Init /\ [][NextPool]_vars

\* the steps of the goroutines of the agent and of the caller of Run
AgentStep ==
    \/ Run
    \/ Run_Wait
    \/ startPlugins
    \/ attest
    \/ startManager
    \/ goEndpoints
    \/ goSupervise
    \/ awaitDying
    \/ shutdown_Endpoints
    \/ shutdown_ManagerCheck
    \/ shutdown_ManagerCall
    \/ shutdown_Catalog
    \/ run_return
    \/ startEndpoints
    \/ startEndpoints_store
    \/ startEndpoints_Wait
    \/ superviseManager
    \/ superviseManager_clear
    \/ superviseManager_return

NextAgent ==
    \/ SetManager
    \/ Run
    \/ Run_Wait
    \/ Shutdown
    \/ startPlugins
    \/ attest
    \/ startManager
    \/ goEndpoints
    \/ goSupervise
    \/ awaitDying
    \/ shutdown_Endpoints
    \/ shutdown_ManagerCheck
    \/ shutdown_ManagerCall
    \/ shutdown_Catalog
    \/ run_return
    \/ startEndpoints
    \/ startEndpoints_store
    \/ startEndpoints_Wait
    \/ Endpoints_fail
    \/ \E err \in {Nil, "errManager"} : Manager_stop(err)
    \/ superviseManager
    \/ superviseManager_clear
    \/ superviseManager_return

SpecAgent == Init /\ [][NextAgent]_vars

\* every goroutine that can take a step eventually takes one; nothing makes
\* the endpoints or the manager fail, or a caller call Shutdown
SpecAgentFair == SpecAgent /\ WF_vars(AgentStep)

(***************************************************************************)
(* Properties of the cache                                                 *)
(***************************************************************************)
Range(s) == {s[i] : i \in DOMAIN s}

\* the documents queued for a key
Docs(c, key) == Range(MapGet(c, key))

\* the earliest-appended document of a non-empty set of documents
Oldest(D) == CHOOSE d \in D : \A e \in D : d.seq <= e.seq

C1_State ==
    \A r \in RegEntries :
        LET D == Docs(cache, DeriveRegEntryhash(r)) IN
        /\ (Entry(r) = Absent) <=> (D = {})
        /\ D # {} => Entry(r) = Oldest(D)

C1_Step ==
    LET key == DeriveRegEntryhash(last'.arg) IN
    /\ last'.op = "SetEntry" =>
          /\ Docs(cache', DeriveRegEntryhash(last'.arg.RegistrationEntry)) =
                Docs(cache, DeriveRegEntryhash(last'.arg.RegistrationEntry)) \cup {last'.arg}
          /\ \A r \in RegEntries : Entry(r) # Absent => Entry(r)' = Entry(r)
    /\ last'.op = "DeleteEntry" =>
          /\ last'.ret = (Docs(cache, key) # {})
          /\ last'.ret => Docs(cache', key) = Docs(cache, key) \ {Oldest(Docs(cache, key))}
          /\ ~last'.ret => cache' = cache

\* C1: Entry(descriptor) returns the earliest-appended document of the
\* descriptor's key that has not been removed, and absent exactly when the key
\* holds no document; SetEntry adds its document behind the in-force one and a
\* successful DeleteEntry removes exactly the earliest-appended one.
C1_EntryIsFIFO == []C1_State /\ [][C1_Step]_vars

\* after SetEntry(d1), SetEntry(d2) on one key and one successful DeleteEntry,
\* Entry returns d2
C1_Witness ==
    /\ nAppended = 2
    /\ last.op = "DeleteEntry" /\ last.ret = TRUE
    /\ Entry(last.arg) # Absent
    /\ Entry(last.arg).seq = 2

\* C2: no key of the mapping holds an empty sequence, and no call has indexed
\* position 0 of an empty sequence.
C2_NoEmptySequence ==
    /\ \A k \in DOMAIN cache : Len(cache[k]) > 0
    /\ ~last.panicked
    /\ \A i \in DOMAIN entries : entries[i] # Panic

\* DeleteEntry removed the last document of a key while another key remains
C2_Witness ==
    /\ last.op = "DeleteEntry" /\ last.ret = TRUE
    /\ ~Found(DeriveRegEntryhash(last.arg))
    /\ DOMAIN cache # {}

C3_Step ==
    /\ last'.op = "Entries" =>
          /\ cache' = cache
          /\ Len(entries') = Cardinality(DOMAIN cache)
          /\ \A k \in DOMAIN cache :
                Cardinality({i \in DOMAIN entries' : entries'[i] = cache[k][1]}) = 1
          /\ \A i \in DOMAIN entries' :
                \E k \in DOMAIN cache : entries'[i] = cache[k][1]
    /\ last'.op # "Entries" => entries' = entries

\* C3: Entries() returns exactly one document per known key, the key's
\* position-0 document at the instant of the call, and later SetEntry,
\* DeleteEntry and DeleteEntries calls do not change what it returned.
C3_EntriesSnapshot == [][C3_Step]_vars

\* a snapshot of two keys, one of them with a document queued behind the
\* in-force one, that a later DeleteEntry has made stale
C3_Witness ==
    /\ Len(entries) = 2
    /\ last.op = "DeleteEntry" /\ last.ret = TRUE
    /\ Found(DeriveRegEntryhash(last.arg))
    /\ \E i \in DOMAIN entries :
          /\ DeriveRegEntryhash(entries[i].RegistrationEntry) = DeriveRegEntryhash(last.arg)
          /\ entries[i] \notin Docs(cache, DeriveRegEntryhash(last.arg))

C4_State ==
    /\ IsEmpty <=> (\A k \in Keys : Docs(cache, k) = {})
    /\ last.op = "IsEmpty" => last.ret = (\A k \in Keys : Docs(cache, k) = {})

C4_Step ==
    /\ (IsEmpty /\ last'.op = "SetEntry") => ~IsEmpty'
    /\ ( /\ last'.op = "DeleteEntry"
         /\ DOMAIN cache = {DeriveRegEntryhash(last'.arg)}
         /\ Len(cache[DeriveRegEntryhash(last'.arg)]) = 1 )
          => (last'.ret = TRUE /\ IsEmpty')

\* C4: IsEmpty() is true iff no key holds a document; from an empty cache
\* SetEntry(x) makes it false, and DeleteEntry(x) on the cache holding only
\* that document returns true and makes it true again.
C4_IsEmpty == []C4_State /\ [][C4_Step]_vars

\* IsEmpty() answered true after a SetEntry and a DeleteEntry
C4_Witness ==
    /\ last.op = "IsEmpty" /\ last.ret = TRUE
    /\ nAppended = 1

C5_Step ==
    \A r \in RegEntries :
        (last'.op = "DeleteEntries" /\ last'.arg = r) =>
            LET key == DeriveRegEntryhash(r) IN
            /\ last'.ret = Cardinality(Docs(cache, key))
            /\ Entry(r)' = Absent
            /\ ~Found(key)'
            /\ \A k \in Keys \ {key} :
                  /\ (k \in DOMAIN cache') <=> (k \in DOMAIN cache)
                  /\ MapGet(cache', k) = MapGet(cache, k)

\* C5: DeleteEntries(descriptor) returns the number of documents queued for
\* the key immediately before the call (0 for an unknown key), removes the
\* key, and leaves every other key's sequence unchanged.
C5_DeleteEntriesCount == [][C5_Step]_vars

\* DeleteEntries removed two documents of one key and left another key alone
C5_Witness ==
    /\ last.op = "DeleteEntries" /\ last.ret = 2
    /\ ~Found(DeriveRegEntryhash(last.arg))
    /\ DOMAIN cache # {}

(***************************************************************************)
(* Properties of the pool                                                  *)
(***************************************************************************)
\* the calls whose list names the id
CallsFor(id) == {k \in DOMAIN calls : id \in Range(calls[k].ids)}

\* the client the call k stores for the j-th id of its list
ClientOf(k, j) == [conn |-> k, stream |-> <<k, j>>]

\* id was registered by exactly two calls, k1 then k2, each for this id alone,
\* k2 starting after k1 had returned nil, and close() was never called
TwoSuccessive(id, k1, k2) ==
    /\ CallsFor(id) = {k1, k2}
    /\ k1 # k2
    /\ calls[k1].ids = <<id>>
    /\ calls[k2].ids = <<id>>
    /\ calls[k1].ret = "nil"
    /\ k1 \in calls[k2].pred
    /\ nCloseAll = 0

\* C6: two successive registrations of one identity, each with a connection
\* of its own, close the stream and the connection of the first entry exactly
\* once, before the second entry is stored, and Lookup then returns the second.
C6_ReplaceClosesOnce ==
    \A id \in SpiffeIDs : \A k1, k2 \in DOMAIN calls :
        TwoSuccessive(id, k1, k2) =>
            /\ streamCloses[<<k1, 1>>] <= 1
            /\ connCloses[k1] <= 1
            /\ ( \/ calls[k2].ret = "nil"
                 \/ \E p \in Procs : proc[p].k = k2 /\ proc[p].pc = "install" )
                  => (streamCloses[<<k1, 1>>] = 1 /\ connCloses[k1] = 1)
            /\ get(id) # ClientOf(k1, 1) => (streamCloses[<<k1, 1>>] = 1 /\ connCloses[k1] = 1)
            /\ calls[k2].ret = "nil" =>
                  /\ get(id) = ClientOf(k2, 1)
                  /\ streamCloses[<<k2, 1>>] = 0
                  /\ connCloses[k2] = 0

\* both registrations have returned nil
C6_Witness ==
    \E id \in SpiffeIDs : \E k1, k2 \in DOMAIN calls :
        /\ TwoSuccessive(id, k1, k2)
        /\ calls[k2].ret = "nil"
        /\ get(id) = ClientOf(k2, 1)

\* the two calls ran concurrently
Overlap(k1, k2) == k1 # k2 /\ k1 \notin calls[k2].pred /\ k2 \notin calls[k1].pred

\* C7: once two concurrent calls for overlapping identities have returned,
\* every client ever stored for a shared identity that Lookup no longer
\* returns has been closed, and no stream or connection of such a client has
\* been closed more than once.
C7_ConcurrentReplace ==
    \A k1, k2 \in DOMAIN calls :
        ( /\ Overlap(k1, k2)
          /\ calls[k1].ret # "running"
          /\ calls[k2].ret # "running"
          /\ nCloseAll = 0 ) =>
            \A e \in installed :
                (e.id \in Range(calls[k1].ids) \cap Range(calls[k2].ids)) =>
                    /\ get(e.id) # e.client =>
                          /\ streamCloses[e.client.stream] >= 1
                          /\ connCloses[e.client.conn] >= 1
                    /\ streamCloses[e.client.stream] <= 1
                    /\ connCloses[e.client.conn] <= 1

\* C8: no two entries of the pool refer to the same connection.
C8_ConnExclusive ==
    \A a, b \in DOMAIN clients : a # b => clients[a].conn # clients[b].conn

C9_Step ==
    (nCloseAll' = nCloseAll + 1) =>
        LET N == Cardinality(DOMAIN clients)
            closedStreams == {s \in Streams : streamCloses'[s] # streamCloses[s]}
            closedConns == {k \in Conns : connCloses'[k] # connCloses[k]}
        IN
        /\ clients' = clients
        /\ Cardinality(closedStreams) = N
        /\ Cardinality(closedConns) = N
        /\ \A s \in closedStreams : streamCloses'[s] = streamCloses[s] + 1
        /\ \A k \in closedConns : connCloses'[k] = connCloses[k] + 1

\* C9: close() on a pool with N entries closes N streams and N connections,
\* each exactly once, and changes nothing on an empty pool.
C9_CloseAll == [][C9_Step]_vars

C10_Step ==
    \A p \in Procs :
        (proc[p].pc = "fail" /\ proc'[p].pc = "idle") =>
            LET k == proc[p].k
                i == proc[p].i
                ids == calls[k].ids
            IN
            /\ calls'[k].ret = "streamErr"
            /\ connCloses'[k] = connCloses[k] + 1
            /\ clients' = clients
            /\ installed' = installed
            /\ \A j \in i..Len(ids) :
                  /\ \A id \in DOMAIN clients' : clients'[id] # ClientOf(k, j)
                  /\ \A e \in installed' : e.client # ClientOf(k, j)
            /\ \A j \in 1..(i - 1) :
                  /\ [id |-> ids[j], client |-> ClientOf(k, j)] \in installed'
                  /\ ids[j] \in DOMAIN clients'
                  /\ ((DOMAIN calls) \ {k} \subseteq calls[k].pred)
                        => clients'[ids[j]] = ClientOf(k, j)

\* C10: when opening the stream fails for an identity of a call, the call
\* closes the connection it dialed and returns the error; it has stored no
\* client for the failing or a later identity; the identities it registered
\* before stay in the pool, and refer to the closed connection unless another
\* call has replaced them.
C10_PartialFailure == [][C10_Step]_vars

\* the second identity of a call failed, the first is still registered with
\* the connection the call has closed
C10_Witness ==
    \E k \in DOMAIN calls :
        /\ calls[k].ret = "streamErr"
        /\ Len(calls[k].ids) = 2
        /\ get(calls[k].ids[1]) = ClientOf(k, 1)
        /\ connCloses[k] >= 1
        /\ streamCloses[<<k, 1>>] = 0

C20_Step ==
    \A p \in Procs :
        (proc[p].pc = "fail" /\ proc'[p].pc = "idle" /\ proc[p].c # Absent) =>
            LET id == CurId(p)
                c == proc[p].c
            IN
            /\ id \in DOMAIN clients'
            /\ clients'[id] = c
            /\ streamCloses'[c.stream] = 0
            /\ connCloses'[c.conn] = 0

\* C20: when a registration returns an error for an identity that had a
\* client in the pool, Lookup still returns that client and its stream and
\* connection have not been closed.
C20_FailedAddKeepsEntry == [][C20_Step]_vars

(***************************************************************************)
(* Properties of the agent                                                 *)
(***************************************************************************)
RunReturned == runRet \notin {"notCalled", "waiting"}

C11_Step ==
    /\ (shutdownReq = "no" /\ shutdownReq' # "no") => Dying'
    /\ \A t \in {"endpoints", "supervise"} :
          (pc[t] # "done" /\ pc'[t] = "done") => Dying'

\* C11: once the manager has started, a Shutdown request and the return of
\* the endpoints goroutine or of the supervising goroutine, with an error or
\* with nil, each put the tomb into the dying state.
C11_AnyReturnKills == [][C11_Step]_vars

\* C12: the value Run() returns is the first non-nil error a goroutine of the
\* tomb returned, whether Shutdown was called before it or not; it is nil
\* exactly when every goroutine returned nil; every goroutine has returned.
C12_RunReturnsFirstError ==
    RunReturned =>
        /\ runRet = firstErr
        /\ (runRet = Nil) <=> (\A t \in Tasks : result[t] \in {"none", Nil})
        /\ \A t \in Tasks : pc[t] \in {"none", "done"}

\* Run() returned an error that a goroutine returned after Shutdown was called
C12_Witness ==
    /\ RunReturned
    /\ runRet # Nil
    /\ shutdownReq = "beforeErr"

\* C13: the attestation begins only after the catalog has started without
\* error, the manager is made and started only after the attestation gave a
\* result, the endpoints are started only after the start of the manager
\* returned without error, and a step that failed is the last one taken.
C13_StartupSequential ==
    /\ Attestor # "none" => Catalog \in {"running", "stopped"}
    /\ (mgr.state # "none" \/ pc["run"] = "startManager"
          \/ result["run"] \in {"errDoubleStart", "errNew"}) => Attestor = "ok"
    /\ (ep # "none" \/ pc["endpoints"] # "none") => mgr.state \in {"running", "stopped"}
    /\ Catalog = "failed" => (Attestor = "none" /\ mgr.state = "none" /\ ep = "none")
    /\ Attestor = "failed" => (mgr.state = "none" /\ ep = "none")
    /\ (mgr.state = "startFailed" \/ result["run"] \in {"errDoubleStart", "errNew"})
          => (ep = "none" /\ pc["endpoints"] = "none" /\ pc["supervise"] = "none")

\* every component has been started, in order
C13_Witness ==
    /\ Catalog = "running"
    /\ Attestor = "ok"
    /\ mgr.state = "running"
    /\ ep = "running"

\* the order of the calls of the teardown
TeardownOrder == <<"Endpoints.Shutdown", "Manager.Shutdown", "Catalog.Stop">>
Position(call) == CHOOSE i \in 1..3 : TeardownOrder[i] = call

\* C14: the teardown stops the endpoints, then the manager, then the
\* catalog, in no other order; it skips a step whose component is absent
\* without failing, and takes the steps that remain.
C14_TeardownOrder ==
    /\ \A i, j \in DOMAIN teardown :
          i < j => Position(teardown[i]) < Position(teardown[j])
    /\ ~Crashed
    /\ pc["run"] \in {"return", "done"} /\ result["run"] \in {"none", Nil}
          => (teardown # <<>> /\ teardown[Len(teardown)] = "Catalog.Stop")

\* C15: whenever Run() has returned after the catalog was started, the
\* catalog has been stopped, and so has every component that was started.
C15_TeardownAlways ==
    (RunReturned /\ Catalog \in {"running", "stopped"}) =>
        /\ Catalog = "stopped"
        /\ mgr.state # "running"
        /\ ep # "running"

C16_Step ==
    (pc["run"] = "startManager" /\ pc'["run"] # "startManager" /\ Manager # Nil) =>
        /\ result'["run"] = "errDoubleStart"
        /\ Manager' = Manager
        /\ mgr' = mgr

\* C16: startManager called while a.Manager is set returns the DoubleStart
\* error, makes and starts no manager, and leaves a.Manager as it was.
C16_DoubleStart == [][C16_Step]_vars

\* run returned the DoubleStart error and the manager of the owner is in place
C16_Witness ==
    /\ result["run"] = "errDoubleStart"
    /\ Manager = "m0"
    /\ mgr.state = "none"

C17_Step ==
    /\ (Manager = Nil /\ Manager' # Nil /\ pc["run"] = "startManager") =>
          /\ mgr'.state = "running"
          /\ result'["run"] = "none"
    /\ (pc["run"] = "startManager" /\ pc'["run"] = "done") => Manager' = Manager
    /\ (Manager # Nil /\ Manager' = Nil) =>
          /\ pc["supervise"] = "clear"
          /\ mgr.state = "stopped"

\* C17: a.Manager is set only by a start of the manager that succeeds, a
\* start that returns an error leaves it unset, and it is cleared only by
\* the supervising goroutine, once the manager has stopped.
C17_HandleSetByStart == [][C17_Step]_vars

\* C18: the teardown never calls Shutdown through a.Manager after the
\* supervising goroutine has cleared it.
C18_NoCallOnClearedHandle ==
    /\ pc["run"] = "sdManagerCall" => Manager # Nil
    /\ ~Crashed

\* C19: once Shutdown() has been called, Run() eventually returns.
C19_ShutdownTerminates == (shutdownReq # "no") ~> RunReturned
====
